---- MODULE Spec2Model ----
(***************************************************************************)
(* A model of @nihility-io/result: the two-variant Result type, its error  *)
(* codec with the process-wide registry of error reconstructors, and the   *)
(* JSON bridge (serialization hooks, revival callback).                    *)
(*                                                                         *)
(* JavaScript values are tagged records ([t |-> "num", n |-> 0], ...).     *)
(* An object is the ordered sequence of its own properties, each with its  *)
(* attributes (writable, enumerable, configurable), because the codec      *)
(* enumerates own properties in order and redefines them.                  *)
(***************************************************************************)
EXTENDS Integers, Sequences, FiniteSets, TLC

VARIABLES registry, regLog, call

vars == <<registry, regLog, call>>

(***************************************************************************)
(* Bounds                                                                  *)
(***************************************************************************)
\* registrations made in one behaviour
MaxRegs == 2
\* descriptors handed to one registerErrorTypes call
MaxTypes == 2
\* entries of a list handed to filter or all
MaxList == 3
\* map calls chained on one result
MaxChain == 3

(***************************************************************************)
(* JavaScript values                                                       *)
(***************************************************************************)
Undef == [t |-> "undef"]
Null == [t |-> "null"]
Bool(b) == [t |-> "bool", b |-> b]
Num(n) == [t |-> "num", n |-> n]
Str(s) == [t |-> "str", s |-> s]

\* an own property created by assignment or an object literal
P(k, v) == [k |-> k, v |-> v, w |-> TRUE, e |-> TRUE, c |-> TRUE]
\* an own property with explicit attributes
PA(k, v, w, e, c) == [k |-> k, v |-> v, w |-> w, e |-> e, c |-> c]

Obj(props) == [t |-> "obj", props |-> props]
Arr(items) == [t |-> "arr", items |-> items]

\* ToBoolean, as applied by `if (x)`
Truthy(v) ==
    CASE v.t = "undef" -> FALSE
      [] v.t = "null" -> FALSE
      [] v.t = "bool" -> v.b
      [] v.t = "num" -> v.n # 0
      [] v.t = "str" -> v.s # ""
      [] OTHER -> TRUE

\* outcomes of a call: it returns a value or it throws one
Ret(v) == [kind |-> "return", val |-> v]
Throw(e) == [kind |-> "throw", err |-> e]

(***************************************************************************)
(* Own properties: OrdinaryOwnPropertyKeys lists integer-index keys first  *)
(* (ascending), then the other string keys in creation order.              *)
(***************************************************************************)
IndexKeys == <<"0", "1">>

IsIndexKey(k) == \E i \in 1..Len(IndexKeys) : IndexKeys[i] = k

IndexRank(k) == CHOOSE i \in 1..Len(IndexKeys) : IndexKeys[i] = k

HasOwn(props, k) == \E i \in 1..Len(props) : props[i].k = k

OwnIndex(props, k) == CHOOSE i \in 1..Len(props) : props[i].k = k

OwnProp(props, k) == props[OwnIndex(props, k)]

OwnKeys(props) == [i \in 1..Len(props) |-> props[i].k]

\* position at which a new key is created
InsertPos(props, k) ==
    IF IsIndexKey(k)
    THEN 1 + Cardinality({i \in 1..Len(props) :
                 IsIndexKey(props[i].k) /\ IndexRank(props[i].k) < IndexRank(k)})
    ELSE Len(props) + 1

\* create (key absent) or replace in place (key present) one own property
PutProp(props, p) ==
    IF HasOwn(props, p.k)
    THEN [props EXCEPT ![OwnIndex(props, p.k)] = p]
    ELSE LET pos == InsertPos(props, p.k)
         IN  SubSeq(props, 1, pos - 1) \o <<p>> \o SubSeq(props, pos, Len(props))

\* obj[key] = value on an ordinary object (all properties writable)
SetKey(props, k, v) ==
    IF HasOwn(props, k)
    THEN [props EXCEPT ![OwnIndex(props, k)].v = v]
    ELSE PutProp(props, P(k, v))

(***************************************************************************)
(* Native errors                                                           *)
(***************************************************************************)
BuiltinKinds == {"EvalError", "RangeError", "ReferenceError", "SyntaxError", "URIError"}

\* the `name` found on the prototype chain of an instance of the class; the
\* tests' MyError extends Error and sets its own name in its constructor
ProtoName(class) == IF class = "MyError" THEN "Error" ELSE class

StackTrace == Str("<trace>")

\* new <class>(message): own stack and message, neither enumerable
NewError(class, message) ==
    [t |-> "error", class |-> class,
     props |-> <<PA("stack", StackTrace, TRUE, FALSE, TRUE),
                 PA("message", Str(message), TRUE, FALSE, TRUE)>>]

\* err[key] = value
Assign(err, k, v) == [err EXCEPT !.props = SetKey(err.props, k, v)]

\* class MyError extends Error { constructor(m) { super(m); this.name = "MyError" } }
NewMyError(message) == Assign(NewError("MyError", message), "name", Str("MyError"))

\* err[key]: the own property, else what Error.prototype and its heirs carry
Get(err, k) ==
    IF HasOwn(err.props, k) THEN OwnProp(err.props, k).v
    ELSE IF k = "name" THEN Str(ProtoName(err.class))
    ELSE IF k = "message" THEN Str("")
    ELSE Undef

ErrName(err) == Get(err, "name")
ErrMessage(err) == Get(err, "message")

\* Object.defineProperty(err, key, { value }): a new property gets all
\* attributes false; an existing one keeps its attributes and changes value,
\* unless it is neither configurable nor writable and the value differs.
RedefineError == NewError("TypeError", "Cannot redefine property")

DefineProperty(err, k, v) ==
    IF ~HasOwn(err.props, k)
    THEN Ret([err EXCEPT !.props = PutProp(err.props, PA(k, v, FALSE, FALSE, FALSE))])
    ELSE LET cur == OwnProp(err.props, k)
         IN  IF ~cur.c /\ ~cur.w /\ cur.v # v
             THEN Throw(RedefineError)
             ELSE Ret([err EXCEPT !.props[OwnIndex(err.props, k)].v = v])

(***************************************************************************)
(* Result core: construction and extraction                                *)
(***************************************************************************)
\* Success.of(value) / new Success(value)
Success_of(value) == [t |-> "Success", status |-> "success", value |-> value]

NewFailure(err) == [t |-> "Failure", status |-> "failure", error |-> err]

\* a Failure.of that tests the truthiness of its argument
Failure_of_truthy(err) ==
    IF err.t = "str" /\ err.s # "" THEN NewFailure(NewError("Error", err.s))
    ELSE NewFailure(err)

\* Failure.of(err): a string is wrapped in a native Error
Failure_of(err) ==
    IF err.t = "str" THEN NewFailure(NewError("Error", err.s)) ELSE NewFailure(err)

isSuccess(res) == res.t = "Success"
isFailure(res) == res.t = "Failure"
IsResult(v) == v.t \in {"Success", "Failure"}

InvalidState == NewError("Error", "Cannot unwrap error of a success result.")

Success_unwrap(res, defaultVault) == Ret(res.value)

Success_unwrapError(res) == Throw(InvalidState)

\* `if (defaultVault)` tests truthiness, not presence
Failure_unwrap(res, defaultVault) ==
    IF Truthy(defaultVault) THEN Ret(defaultVault) ELSE Throw(res.error)

Failure_unwrapError_fresh(res) == Ret(NewError("Error", ErrMessage(res.error).s))

Failure_unwrapError(res) == Ret(res.error)

unwrap(res, defaultVault) ==
    IF isSuccess(res) THEN Success_unwrap(res, defaultVault)
    ELSE Failure_unwrap(res, defaultVault)

unwrapError(res) ==
    IF isSuccess(res) THEN Success_unwrapError(res) ELSE Failure_unwrapError(res)

(***************************************************************************)
(* Result core: the constructors and their new.target guards.  NewTargets  *)
(* are the classes an instantiation may name: the three of the library and *)
(* a subclass of each.                                                     *)
(***************************************************************************)
NewTargets == {"Result", "Success", "Failure", "SubResult", "SubSuccess", "SubFailure"}

SubclassingError == NewError("Error", "Subclassing is not allowed")

\* a Result constructor without its guard
Result_constructor_open(newTarget) == Ret([t |-> newTarget])

\* the constructor of Result: the object so far has no own fields
Result_constructor(newTarget) ==
    IF newTarget # "Result" /\ newTarget # "Success" /\ newTarget # "Failure"
    THEN Throw(SubclassingError)
    ELSE Ret([t |-> newTarget])

\* the constructor of Success after super() has returned
Success_constructor(super, newTarget, value) ==
    IF super.kind = "throw" THEN super
    ELSE IF newTarget # "Success" THEN Throw(SubclassingError)
    ELSE Ret([t |-> newTarget, status |-> "success", value |-> value])

\* the constructor of Failure after super() has returned
Failure_constructor(super, newTarget, err) ==
    IF super.kind = "throw" THEN super
    ELSE IF newTarget # "Failure" THEN Throw(SubclassingError)
    ELSE Ret([t |-> newTarget, status |-> "failure", error |-> err])

\* new <newTarget>(arg): the constructor chain that runs for the class
Construct(newTarget, arg) ==
    CASE newTarget \in {"Success", "SubSuccess"} ->
             Success_constructor(Result_constructor(newTarget), newTarget, arg)
      [] newTarget \in {"Failure", "SubFailure"} ->
             Failure_constructor(Result_constructor(newTarget), newTarget, arg)
      [] OTHER -> Result_constructor(newTarget)

\* the instance predicates: this instanceof Success / Failure
isSuccess_method_always(res) == TRUE

isSuccess_method(res) == res.t = "Success"

isFailure_method(res) == res.t = "Failure"

(***************************************************************************)
(* Result core: transformation.  The functions a caller passes are named;  *)
(* Apply gives the outcome of calling one.  Each method gives its outcome  *)
(* and the arguments it called the function with.                          *)
(***************************************************************************)
FnFault == NewError("Error", "f failed")

MapFns == {"double", "toSuccess", "toFailure", "toUndefined", "throws"}

Double(x) == IF x.t = "num" THEN Num(x.n * 2) ELSE x

\* f(value)
Apply(f, x) ==
    CASE f = "double" -> Ret(Double(x))
      [] f = "toSuccess" -> Ret(Success_of(Double(x)))
      [] f = "toFailure" -> Ret(Failure_of(NewError("Error", "Error")))
      [] f = "toUndefined" -> Ret(Undef)
      [] OTHER -> Throw(FnFault)

Success_map_noFlatten(res, f) ==
    LET r == Apply(f, res.value)
    IN  [out |-> IF r.kind = "throw" THEN r ELSE Ret(Success_of(r.val)),
         calls |-> <<res.value>>]

Success_map(res, f) ==
    LET r == Apply(f, res.value)
    IN  [out |-> IF r.kind = "throw" THEN r
                 ELSE IF IsResult(r.val) THEN Ret(r.val)
                 ELSE Ret(Success_of(r.val)),
         calls |-> <<res.value>>]

Failure_map(res, f) == [out |-> Ret(Failure_of(res.error)), calls |-> <<>>]

map(res, f) == IF isSuccess(res) THEN Success_map(res, f) ELSE Failure_map(res, f)

\* promises
Pending == [t |-> "promise", state |-> "pending"]
Fulfilled(v) == [t |-> "promise", state |-> "fulfilled", val |-> v]
Rejected(e) == [t |-> "promise", state |-> "rejected", val |-> e]

AsyncFns == {"asyncDouble", "asyncToSuccess", "asyncToFailure", "asyncReject",
             "asyncRejectString", "syncThrow", "syncDouble"}

\* f(value) for a function that returns a promise, returns a plain value, or
\* throws before it returns
ApplyAsync(f, x) ==
    CASE f = "asyncDouble" -> Ret(Fulfilled(Double(x)))
      [] f = "asyncToSuccess" -> Ret(Fulfilled(Success_of(Double(x))))
      [] f = "asyncToFailure" -> Ret(Fulfilled(Failure_of(NewError("Error", "Error"))))
      [] f = "asyncReject" -> Ret(Rejected(FnFault))
      [] f = "asyncRejectString" -> Ret(Rejected(Str("rejected")))
      [] f = "syncDouble" -> Ret(Double(x))
      [] OTHER -> Throw(FnFault)

\* await x: the value of a fulfilled promise or of a non-promise, the reason
\* of a rejected promise thrown
Await(x) ==
    IF x.t # "promise" THEN Ret(x)
    ELSE IF x.state = "rejected" THEN Throw(x.val)
    ELSE Ret(x.val)

\* Success.mapAsync up to its await: f has been called, the promise returned
\* to the caller is pending
Success_mapAsync(res, f) ==
    [out |-> Pending, awaiting |-> ApplyAsync(f, res.value), calls |-> <<res.value>>]

\* the rest of the async function without its catch clause
Success_mapAsync_resume_noCatch(awaiting) ==
    LET r == IF awaiting.kind = "throw" THEN awaiting ELSE Await(awaiting.val)
    IN  IF r.kind = "throw" THEN Rejected(r.err)
        ELSE IF IsResult(r.val) THEN Fulfilled(r.val)
        ELSE Fulfilled(Success_of(r.val))

\* the rest of the async function: the awaited value is flattened or wrapped,
\* a throw of f or a rejection is caught, and the promise is settled
Success_mapAsync_resume(awaiting) ==
    LET r == IF awaiting.kind = "throw" THEN awaiting ELSE Await(awaiting.val)
    IN  IF r.kind = "throw" THEN Fulfilled(Failure_of(r.err))
        ELSE IF IsResult(r.val) THEN Fulfilled(r.val)
        ELSE Fulfilled(Success_of(r.val))

\* Promise.resolve(Result.failure(this.error))
Failure_mapAsync(res, f) ==
    [out |-> Fulfilled(Failure_of(res.error)), awaiting |-> Undef, calls |-> <<>>]

mapAsync(res, f) ==
    IF isSuccess(res) THEN Success_mapAsync(res, f) ELSE Failure_mapAsync(res, f)

ErrorFns == {"toMyError", "toRangeError", "same", "throws"}

\* f(error)
ApplyToError(f, e) ==
    CASE f = "toMyError" -> Ret(NewMyError(ErrMessage(e).s))
      [] f = "toRangeError" -> Ret(NewError("RangeError", "out of range"))
      [] f = "same" -> Ret(e)
      [] OTHER -> Throw(FnFault)

Success_mapError(res, f) == [out |-> Ret(Success_of(res.value)), calls |-> <<>>]

Failure_mapError_keep(res, f) == [out |-> Ret(Failure_of(res.error)), calls |-> <<res.error>>]

Failure_mapError(res, f) ==
    LET r == ApplyToError(f, res.error)
    IN  [out |-> IF r.kind = "throw" THEN r ELSE Ret(Failure_of(r.val)),
         calls |-> <<res.error>>]

mapError(res, f) ==
    IF isSuccess(res) THEN Success_mapError(res, f) ELSE Failure_mapError(res, f)

\* the two branches of a ResultMatcher
SuccessBranches == {"double", "toUndefined", "throws"}

FailureBranches == {"one", "message", "throws"}

MatchersIn == [success : SuccessBranches, failure : FailureBranches]

\* m.failure(error)
ApplyFailureBranch(f, e) ==
    CASE f = "one" -> Ret(Num(1))
      [] f = "message" -> Ret(ErrMessage(e))
      [] OTHER -> Throw(FnFault)

Success_match(res, m) ==
    [out |-> Apply(m.success, res.value), calls |-> <<<<"success", res.value>>>>]

\* a match that runs the success branch before the failure branch
Failure_match_both(res, m) ==
    [out |-> ApplyFailureBranch(m.failure, res.error),
     calls |-> <<<<"success", Undef>>, <<"failure", res.error>>>>]

Failure_match(res, m) ==
    [out |-> ApplyFailureBranch(m.failure, res.error),
     calls |-> <<<<"failure", res.error>>>>]

\* res.match(m), which Result.match(m)(res) delegates to
match(res, m) == IF isSuccess(res) THEN Success_match(res, m) ELSE Failure_match(res, m)

\* functions handed to fromTry
Thunks == {"five", "undefined", "result", "throwsError", "throwsMyError", "throwsString"}

\* f()
Call(f) ==
    CASE f = "five" -> Ret(Num(5))
      [] f = "undefined" -> Ret(Undef)
      [] f = "result" -> Ret(Failure_of(NewError("Error", "Error")))
      [] f = "throwsError" -> Throw(NewError("Error", "Error"))
      [] f = "throwsMyError" -> Throw(NewMyError("m"))
      [] OTHER -> Throw(Str("Error"))

\* the outcome of fromTry's try block turned into its return value
fromTry_caught(r) ==
    IF r.kind = "throw" THEN Ret(Failure_of(r.err)) ELSE Ret(Success_of(r.val))

fromTry_uncaught(f) ==
    [out |-> IF Call(f).kind = "throw" THEN Call(f) ELSE Ret(Success_of(Call(f).val)),
     calls |-> 1]

fromTry(f) == [out |-> fromTry_caught(Call(f)), calls |-> 1]

(***************************************************************************)
(* Result core: bridging to promises.  A reaction registered with then or  *)
(* catch runs in a later job, so the promise a bridge returns is pending   *)
(* when the call returns and is settled by the steps below.                *)
(***************************************************************************)
\* the promise then() returns, settled with the outcome of its callback
Settled(outcome) ==
    IF outcome.kind = "throw" THEN Rejected(outcome.err) ELSE Fulfilled(outcome.val)

\* toPromise answering a Failure with an undefined value
toPromise_then_swallow(res) ==
    IF res.t = "promise"
    THEN IF res.state = "rejected" THEN res
         ELSE IF isSuccess(res.val) THEN Fulfilled(res.val.value) ELSE Fulfilled(Undef)
    ELSE IF isSuccess(res) THEN Fulfilled(res.value) ELSE Fulfilled(Undef)

\* Promise.resolve(res).then((r) => r.unwrap()), res a result or a promise
\* of one; the method form is Promise.resolve(0).then(() => this.unwrap())
toPromise_then(res) ==
    IF res.t = "promise"
    THEN IF res.state = "rejected" THEN res ELSE Settled(unwrap(res.val, Undef))
    ELSE Settled(unwrap(res, Undef))

\* p.then((x) => Result.success(x))
fromPromise_then(p) ==
    IF p.state = "fulfilled" THEN Fulfilled(Success_of(p.val)) ELSE Rejected(p.val)

\* a catch that hands the rejection on
fromPromise_catch_rethrow(mid) == mid

\* .catch((e) => Result.failure(e))
fromPromise_catch(mid) ==
    IF mid.state = "fulfilled" THEN mid ELSE Fulfilled(Failure_of(mid.val))

(***************************************************************************)
(* Result core: lists of results                                           *)
(***************************************************************************)
filter_keepAll(a) ==
    Arr([i \in 1..Len(a) |-> IF isSuccess(a[i]) THEN a[i].value ELSE a[i].error])

\* a.filter((x) => x instanceof Success).map((x) => x.value)
filter(a) ==
    LET kept == SelectSeq(a, isSuccess)
    IN  Arr([i \in 1..Len(kept) |-> kept[i].value])

\* the loop of all, from entry i on, with the values pushed so far; `seen`
\* is the number of entries the loop has taken from the list when it ends
RECURSIVE allLoop(_, _, _)
allLoop(a, i, res) ==
    IF i > Len(a) THEN [out |-> Ret(Success_of(Arr(res))), seen |-> Len(a)]
    ELSE IF isFailure(a[i]) THEN [out |-> Ret(a[i]), seen |-> i]
    ELSE LET e == unwrap(a[i], Undef)
         IN  IF e.kind = "throw" THEN [out |-> e, seen |-> i]
             ELSE allLoop(a, i + 1, Append(res, e.val))

\* all collecting to the end of the list and answering with the last Failure
RECURSIVE allLoop_last(_, _, _, _)
allLoop_last(a, i, res, found) ==
    IF i > Len(a)
    THEN [out |-> IF found = Undef THEN Ret(Success_of(Arr(res))) ELSE Ret(found),
          seen |-> Len(a)]
    ELSE IF isFailure(a[i]) THEN allLoop_last(a, i + 1, res, a[i])
    ELSE allLoop_last(a, i + 1, Append(res, a[i].value), found)

all_last(a) == allLoop_last(a, 1, <<>>, Undef)

all(a) == allLoop(a, 1, <<>>)

(***************************************************************************)
(* Error Type Registry: the plain object Result.#registeredErrorTypes.     *)
(* `own` holds its own properties; a write to the key "__proto__" goes to  *)
(* the inherited setter and replaces the prototype instead of creating an  *)
(* own property.                                                           *)
(***************************************************************************)
EmptyRegistry == [own |-> <<>>, proto |-> "Object.prototype"]

\* a registry assignment that drops the other entries
RegistrySet_fresh(reg, name, decoder) ==
    IF name = "__proto__"
    THEN [reg EXCEPT !.proto = decoder]
    ELSE [reg EXCEPT !.own = [n \in {name} |-> decoder]]

\* registry[name] = decoder
RegistrySet(reg, name, decoder) ==
    IF name = "__proto__"
    THEN [reg EXCEPT !.proto = decoder]
    ELSE [reg EXCEPT !.own = [n \in DOMAIN reg.own \cup {name} |->
                                 IF n = name THEN decoder ELSE reg.own[n]]]

registerErrorDecoder_keepFirst(reg, name, decoder) ==
    IF name \in DOMAIN reg.own THEN reg ELSE RegistrySet(reg, name, decoder)

registerErrorDecoder(reg, name, decoder) == RegistrySet(reg, name, decoder)

registerErrorType(reg, err) == RegistrySet(reg, err.name, err.fromResultFailure)

\* a registerErrorTypes that walks its arguments from the last to the first
RECURSIVE registerErrorTypes_reversed(_, _)
registerErrorTypes_reversed(reg, errs) ==
    IF errs = <<>> THEN reg
    ELSE registerErrorTypes_reversed(registerErrorType(reg, errs[Len(errs)]),
                                     SubSeq(errs, 1, Len(errs) - 1))

\* err.forEach(Result.registerErrorType)
RECURSIVE registerErrorTypes(_, _)
registerErrorTypes(reg, errs) ==
    IF errs = <<>> THEN reg
    ELSE registerErrorTypes(registerErrorType(reg, Head(errs)), Tail(errs))

\* Object.hasOwn(Result.#registeredErrorTypes, name)
Registered(reg, name) == name \in DOMAIN reg.own

(***************************************************************************)
(* Reconstructors a caller may register (ErrorTypeDecoder): one builds the *)
(* caller's error class from the message, one also copies the additional   *)
(* properties onto it, one faults.                                         *)
(***************************************************************************)
Decoders == {"mkMyError", "mkAssign", "mkThrow"}

DecoderFault == NewError("Error", "decoder failed")

\* Object.assign(err, props)
RECURSIVE AssignAll(_, _)
AssignAll(err, props) ==
    IF props = <<>> THEN err
    ELSE AssignAll(Assign(err, Head(props).k, Head(props).v), Tail(props))

ApplyDecoder(decoder, message, additionalProps) ==
    CASE decoder = "mkMyError" -> Ret(NewMyError(message))
      [] decoder = "mkAssign" ->
             Ret(AssignAll(NewMyError(message),
                           SelectSeq(additionalProps.props, LAMBDA p : p.e)))
      [] OTHER -> Throw(DecoderFault)

(***************************************************************************)
(* Error codec                                                             *)
(***************************************************************************)
\* the reduce of errorEncoder: ({ ...res, [key]: err[key] })
RECURSIVE encodeReduce(_, _, _)
encodeReduce(err, keys, res) ==
    IF keys = <<>> THEN res
    ELSE encodeReduce(err, Tail(keys), SetKey(res, Head(keys), Get(err, Head(keys))))

errorEncoder_withStack(err) ==
    Obj(encodeReduce(err, OwnKeys(err.props),
                     <<P("name", Get(err, "name")), P("message", Get(err, "message"))>>))

errorEncoder(err) ==
    Obj(encodeReduce(err, SelectSeq(OwnKeys(err.props), LAMBDA x : x # "stack"),
                     <<P("name", Get(err, "name")), P("message", Get(err, "message"))>>))

\* the switch of errorDecoder
NewByName_unnamed(name, message) ==
    IF name \in BuiltinKinds THEN Ret(NewError(name, message))
    ELSE Ret(NewError("Error", message))

NewByName_typeErrorToo(name, message) ==
    IF name \in BuiltinKinds \cup {"TypeError"} THEN Ret(NewError(name, message))
    ELSE DefineProperty(NewError("Error", message), "name", Str(name))

NewByName(name, message) ==
    IF name \in BuiltinKinds THEN Ret(NewError(name, message))
    ELSE DefineProperty(NewError("Error", message), "name", Str(name))

\* an errorDecoder that drops the additional properties
defineAll_none(out, props) == out

\* for (const key in additionalProps) Object.defineProperty(err, key, ...)
RECURSIVE defineAll(_, _)
defineAll(out, props) ==
    IF out.kind = "throw" \/ props = <<>> THEN out
    ELSE defineAll(DefineProperty(out.val, Head(props).k, Head(props).v), Tail(props))

ResetStack_keep(out) == out

\* Object.defineProperty(err, "stack", { value: "" })
ResetStack(out) ==
    IF out.kind = "throw" THEN out ELSE DefineProperty(out.val, "stack", Str(""))

errorDecoder(reg, name, message, additionalProps) ==
    IF Registered(reg, name)
    THEN ApplyDecoder(reg.own[name], message, additionalProps)
    ELSE ResetStack(defineAll(NewByName(name, message),
                              SelectSeq(additionalProps.props, LAMBDA p : p.e)))

\* omitKeys(obj, keys): the enumerable own properties not listed, in order
omitKeys(obj, keys) ==
    Obj(SelectSeq([i \in 1..Len(obj.props) |-> P(obj.props[i].k, obj.props[i].v)],
                  LAMBDA p : p.k \notin keys))

(***************************************************************************)
(* Serialization: the toJSON hooks and JSON.stringify, which calls the     *)
(* hook of every value it visits, keeps enumerable own properties and      *)
(* drops the ones whose value is undefined.  A JSON text is represented by *)
(* the tree of plain values it denotes.                                    *)
(***************************************************************************)
Success_toJSON(res) == Obj(<<P("status", Str(res.status)), P("value", res.value)>>)

Failure_toJSON_raw(res) == Obj(<<P("status", Str(res.status)), P("error", res.error)>>)

Failure_toJSON(res) ==
    Obj(<<P("status", Str(res.status)), P("error", errorEncoder(res.error))>>)

toJSON(res) == IF isSuccess(res) THEN Success_toJSON(res) ELSE Failure_toJSON(res)

RECURSIVE stringify(_), stringifyProps(_), stringifyItems(_)

stringify(v) ==
    LET value == IF IsResult(v) THEN toJSON(v) ELSE v
    IN  CASE value.t = "undef" -> Undef
          [] value.t \in {"null", "bool", "num", "str"} -> value
          [] value.t = "arr" -> Arr(stringifyItems(value.items))
          [] OTHER -> Obj(stringifyProps(SelectSeq(value.props, LAMBDA p : p.e)))

stringifyProps(props) ==
    IF props = <<>> THEN <<>>
    ELSE LET s == stringify(Head(props).v)
             rest == stringifyProps(Tail(props))
         IN  IF s = Undef THEN rest ELSE <<P(Head(props).k, s)>> \o rest

stringifyItems(items) ==
    IF items = <<>> THEN <<>>
    ELSE LET s == stringify(Head(items))
         IN  <<IF s = Undef THEN Null ELSE s>> \o stringifyItems(Tail(items))

(***************************************************************************)
(* The wire schema (models.ts).  safeParse returns a success flag and the  *)
(* parsed data; a fault inside a transform propagates out of it.           *)
(***************************************************************************)
IsObject(v) == v.t \in {"obj", "error", "Success", "Failure"}

\* the enumerable own properties of an object
EnumProps(v) ==
    CASE v.t = "Success" -> <<P("status", Str(v.status)), P("value", v.value)>>
      [] v.t = "Failure" -> <<P("status", Str(v.status)), P("error", v.error)>>
      [] OTHER -> SelectSeq(v.props, LAMBDA p : p.e)

\* input[key]
Field(v, k) ==
    IF v.t = "error" THEN Get(v, k)
    ELSE IF HasOwn(EnumProps(v), k) THEN OwnProp(EnumProps(v), k).v
    ELSE Undef

UnrecognizedKeys(v, shape) ==
    {EnumProps(v)[i].k : i \in 1..Len(EnumProps(v))} \ shape

Invalid == Ret([success |-> FALSE])
Valid(data) == Ret([success |-> TRUE, data |-> data])

\* z.looseObject({ name: z.string(), message: z.string() }).transform(...)
errorModel(reg, x) ==
    IF ~IsObject(x) THEN Invalid
    ELSE IF Field(x, "name").t # "str" \/ Field(x, "message").t # "str" THEN Invalid
    ELSE LET err == errorDecoder(reg, Field(x, "name").s, Field(x, "message").s,
                                 omitKeys(Obj(EnumProps(x)), {"name", "message"}))
         IN  IF err.kind = "throw" THEN err ELSE Valid(err.val)

\* the union with a success member that demands its value key
jsonModel_valueRequired(reg, value) ==
    IF ~IsObject(value) THEN Invalid
    ELSE IF Field(value, "status") = Str("success")
    THEN IF UnrecognizedKeys(value, {"status", "value"}) # {} THEN Invalid
         ELSE IF ~HasOwn(EnumProps(value), "value") THEN Invalid
         ELSE Valid([status |-> "success", value |-> Field(value, "value")])
    ELSE IF Field(value, "status") = Str("failure")
    THEN LET error == errorModel(reg, Field(value, "error"))
         IN  IF error.kind = "throw" THEN error
             ELSE IF ~error.val.success THEN Invalid
             ELSE IF UnrecognizedKeys(value, {"status", "error"}) # {} THEN Invalid
             ELSE Valid([status |-> "failure", error |-> error.val.data])
    ELSE Invalid

\* the union without the strictness of its members
jsonModel_loose(reg, value) ==
    IF ~IsObject(value) THEN Invalid
    ELSE IF Field(value, "status") = Str("success")
    THEN Valid([status |-> "success", value |-> Field(value, "value")])
    ELSE IF Field(value, "status") = Str("failure")
    THEN LET error == errorModel(reg, Field(value, "error"))
         IN  IF error.kind = "throw" \/ ~error.val.success THEN error
             ELSE Valid([status |-> "failure", error |-> error.val.data])
    ELSE Invalid

\* z.discriminatedUnion("status", [strictObject success, strictObject failure]):
\* the member is picked by status; an object schema parses the keys of its
\* shape first (running errorModel and its transform on the error key) and
\* reports unrecognized keys afterwards
jsonModel(reg, value) ==
    IF ~IsObject(value) THEN Invalid
    ELSE IF Field(value, "status") = Str("success")
    THEN IF UnrecognizedKeys(value, {"status", "value"}) # {} THEN Invalid
         ELSE Valid([status |-> "success", value |-> Field(value, "value")])
    ELSE IF Field(value, "status") = Str("failure")
    THEN LET error == errorModel(reg, Field(value, "error"))
         IN  IF error.kind = "throw" THEN error
             ELSE IF ~error.val.success THEN Invalid
             ELSE IF UnrecognizedKeys(value, {"status", "error"}) # {} THEN Invalid
             ELSE Valid([status |-> "failure", error |-> error.val.data])
    ELSE Invalid

(***************************************************************************)
(* Revival: Result.JSONReviver and JSON.parse(text, reviver), which        *)
(* revives the properties of a node before the node itself.                *)
(***************************************************************************)
JSONReviver_successOnly(reg, value) ==
    LET res == jsonModel(reg, value)
    IN  IF res.kind = "throw" THEN res
        ELSE IF res.val.success /\ res.val.data.status = "success"
        THEN Ret(Success_of(res.val.data.value))
        ELSE Ret(value)

\* the body of JSONReviver, given the outcome of jsonModel.safeParse(value)
JSONReviver_safeParsed(res, value) ==
    IF res.kind = "throw" THEN res
    ELSE IF res.val.success
    THEN IF res.val.data.status = "success"
         THEN Ret(Success_of(res.val.data.value))
         ELSE Ret(Failure_of(res.val.data.error))
    ELSE Ret(value)

JSONReviver(reg, value) == JSONReviver_safeParsed(jsonModel(reg, value), value)

internalize_rootOnly(reg, val) == JSONReviver(reg, val)

RECURSIVE internalize(_, _), internalizeProps(_, _, _), internalizeItems(_, _, _)

internalize(reg, val) ==
    IF val.t = "obj"
    THEN LET props == internalizeProps(reg, val.props, <<>>)
         IN  IF props.kind = "throw" THEN props ELSE JSONReviver(reg, Obj(props.val))
    ELSE IF val.t = "arr"
    THEN LET items == internalizeItems(reg, val.items, <<>>)
         IN  IF items.kind = "throw" THEN items ELSE JSONReviver(reg, Arr(items.val))
    ELSE JSONReviver(reg, val)

\* a property whose revived value is undefined is deleted
internalizeProps(reg, props, done) ==
    IF props = <<>> THEN Ret(done)
    ELSE LET r == internalize(reg, Head(props).v)
         IN  IF r.kind = "throw" THEN r
             ELSE internalizeProps(reg, Tail(props),
                      IF r.val = Undef THEN done ELSE done \o <<P(Head(props).k, r.val)>>)

internalizeItems(reg, items, done) ==
    IF items = <<>> THEN Ret(done)
    ELSE LET r == internalize(reg, Head(items))
         IN  IF r.kind = "throw" THEN r
             ELSE internalizeItems(reg, Tail(items), done \o <<r.val>>)

\* a text that is not well-formed JSON, and the fault the parser raises on it
Malformed == [t |-> "malformed"]

SyntaxFault == NewError("SyntaxError", "Unexpected token")

\* JSON.parse(str, Result.JSONReviver)
JSONParse(reg, text) ==
    IF text = Malformed THEN Throw(SyntaxFault) ELSE internalize(reg, text)

(***************************************************************************)
(* Result.fromJson and the validators (Zod models) a caller hands to it.   *)
(* safeParse of a validator returns a success flag with the output or the  *)
(* error object.                                                           *)
(***************************************************************************)
\* the tests' Person model and z.number()
Validators == {[t |-> "zod", schema |-> "Person"], [t |-> "zod", schema |-> "number"]}

\* new Date(str)
Date(str) == [t |-> "date", iso |-> str]

ZodError(schema) ==
    Assign(NewError("ZodError", "Invalid input"), "issues",
           Arr(<<Obj(<<P("code", Str("invalid_type")), P("expected", Str(schema))>>)>>))

\* model.safeParse(res)
safeParse(model, res) ==
    CASE model.schema = "Person" ->
             IF IsObject(res) /\ Field(res, "name").t = "str"
                              /\ Field(res, "birthday").t = "str"
             THEN [success |-> TRUE,
                   data |-> Obj(<<P("name", Field(res, "name")),
                                  P("birthday", Date(Field(res, "birthday").s))>>)]
             ELSE [success |-> FALSE, error |-> ZodError("object")]
      [] OTHER ->
             IF res.t = "num" THEN [success |-> TRUE, data |-> res]
             ELSE [success |-> FALSE, error |-> ZodError("number")]

\* fromJson without its try/catch
fromJson_uncaught(reg, str, model) ==
    LET parsed == JSONParse(reg, str)
    IN  IF parsed.kind = "throw" THEN parsed
        ELSE IF isFailure(parsed.val) THEN Ret(parsed.val)
        ELSE LET res == IF isSuccess(parsed.val) THEN parsed.val.value ELSE parsed.val
             IN  IF ~Truthy(model) THEN Ret(Success_of(res))
                 ELSE LET v == safeParse(model, res)
                      IN  IF v.success THEN Ret(Success_of(v.data))
                          ELSE Ret(Failure_of(v.error))

\* fromJson handing the parsed value to the validator as it is
fromJson_noUnwrap(reg, str, model) ==
    LET parsed == JSONParse(reg, str)
    IN  IF parsed.kind = "throw" THEN Ret(Failure_of(parsed.err))
        ELSE IF isFailure(parsed.val) THEN Ret(parsed.val)
        ELSE IF ~Truthy(model) THEN Ret(Success_of(parsed.val))
        ELSE LET v == safeParse(model, parsed.val)
             IN  IF v.success THEN Ret(Success_of(v.data))
                 ELSE Ret(Failure_of(v.error))

\* fromJson refusing a parsed value that is no Result
fromJson_envelopeOnly(reg, str, model) ==
    LET parsed == JSONParse(reg, str)
    IN  IF parsed.kind = "throw" THEN Ret(Failure_of(parsed.err))
        ELSE IF ~IsResult(parsed.val) THEN Ret(Failure_of(ZodError("envelope")))
        ELSE IF isFailure(parsed.val) THEN Ret(parsed.val)
        ELSE IF ~Truthy(model) THEN Ret(Success_of(parsed.val.value))
        ELSE LET v == safeParse(model, parsed.val.value)
             IN  IF v.success THEN Ret(Success_of(v.data))
                 ELSE Ret(Failure_of(v.error))

\* the end of fromJson: the value as it is, or what the validator makes of it
fromJson_validate(model, res) ==
    IF ~Truthy(model) THEN Ret(Success_of(res))
    ELSE IF safeParse(model, res).success
    THEN Ret(Success_of(safeParse(model, res).data))
    ELSE Ret(Failure_of(safeParse(model, res).error))

\* a fromJson that goes on unwrapping a Result found inside the envelope
fromJson_parsed_deep(parsed, model) ==
    IF parsed.kind = "throw" THEN Ret(Failure_of(parsed.err))
    ELSE IF isFailure(parsed.val) THEN Ret(parsed.val)
    ELSE IF isSuccess(parsed.val) /\ IsResult(parsed.val.value)
    THEN Ret(parsed.val.value)
    ELSE IF isSuccess(parsed.val) THEN fromJson_validate(model, parsed.val.value)
    ELSE fromJson_validate(model, parsed.val)

\* fromJson after JSON.parse: a fault is caught, a Failure returned, a
\* Success replaced by its value
fromJson_parsed(parsed, model) ==
    IF parsed.kind = "throw" THEN Ret(Failure_of(parsed.err))
    ELSE IF isFailure(parsed.val) THEN Ret(parsed.val)
    ELSE IF isSuccess(parsed.val) THEN fromJson_validate(model, parsed.val.value)
    ELSE fromJson_validate(model, parsed.val)

fromJson(reg, str, model) == fromJson_parsed(JSONParse(reg, str), model)

(***************************************************************************)
(* Inputs                                                                  *)
(***************************************************************************)
Messages == {"m", ""}

RegNames == {"MyError", "RangeError", "__proto__"}

DecodeNames == BuiltinKinds \cup {"Error", "TypeError", "MyError", "__proto__"}

ErrorTypes == [name : RegNames, fromResultFailure : Decoders]

ErrorsIn ==
    {NewError("Error", "m"), NewError("Error", ""), NewError("RangeError", "m"),
     NewError("TypeError", "m"), NewMyError("m"),
     Assign(NewError("Error", "m"), "code", Num(1)),
     Assign(Assign(NewMyError("m"), "code", Num(1)), "detail", Str("a")),
     Assign(Assign(NewError("RangeError", "m"), "detail", Str("a")), "0", Str("a"))}

ExtraPropsIn ==
    {Obj(<<>>),
     Obj(<<P("code", Num(1))>>),
     Obj(<<P("code", Num(1)), P("detail", Str("a"))>>),
     Obj(<<P("message", Str("other"))>>),
     Obj(<<P("name", Str("Other"))>>),
     Obj(<<P("name", Str("MyError")), P("message", Str("m"))>>),
     Obj(<<P("stack", Str("at f"))>>)}

PlainValues ==
    {Num(0), Num(5), Str(""), Str("a"), Bool(FALSE), Bool(TRUE), Null,
     Obj(<<P("name", Str("John Smith"))>>)}

\* an omitted argument reads as undefined
DefaultsIn == PlainValues \cup {Undef}

ResultsIn ==
    {Success_of(v) : v \in PlainValues} \cup {Failure_of(e) : e \in ErrorsIn}

SuccessEnvelope == Obj(<<P("status", Str("success")), P("value", Num(1))>>)

FailureEnvelope ==
    Obj(<<P("status", Str("failure")),
          P("error", Obj(<<P("name", Str("MyError")), P("message", Str("Oh, no!"))>>))>>)

\* plain values that contain an object of envelope shape
EnvelopeValues ==
    {SuccessEnvelope, FailureEnvelope, Obj(<<P("person", SuccessEnvelope)>>)}

Holder(v) == Obj(<<P("msg", Str("Hello World!")), P("person", v)>>)

\* values handed to JSON.stringify: results, and results held in a field
StringifyIn ==
    ResultsIn \cup {Success_of(v) : v \in EnvelopeValues}
        \cup {Holder(r) : r \in ResultsIn}
        \cup {Success_of(Failure_of(NewMyError("m"))), Arr(<<Success_of(Num(5)), Undef>>),
              Failure_of(Assign(NewError("Error", "m"), "cause", SuccessEnvelope))}

\* texts received from elsewhere
TextsIn ==
    {Num(5),
     Holder(SuccessEnvelope),
     Obj(<<P("a", Obj(<<P("b", FailureEnvelope)>>))>>),
     Obj(<<P("status", Str("success")), P("value", FailureEnvelope)>>),
     Arr(<<SuccessEnvelope, Num(1)>>),
     Obj(<<P("status", Str("failure")), P("error", SuccessEnvelope)>>),
     Obj(<<P("status", Str("failure")),
           P("error", Obj(<<P("name", Str("RangeError")), P("message", Str("m")),
                            P("cause", SuccessEnvelope)>>))>>),
     Obj(<<P("status", Str("success")), P("value", Num(1)), P("extra", SuccessEnvelope)>>)}

WireError == Obj(<<P("name", Str("MyError")), P("message", Str("Oh, no!"))>>)

\* nodes handed to the reviver on their own: the two envelopes, objects one
\* step away from them, and values that are no objects
NodesIn ==
    {SuccessEnvelope, FailureEnvelope,
     Num(5), Str("success"), Null, Bool(TRUE),
     Arr(<<Str("success"), Num(1)>>),
     Obj(<<>>),
     Obj(<<P("status", Str("success"))>>),
     Obj(<<P("status", Str("failure"))>>),
     Obj(<<P("status", Str("success")), P("value", Num(1)), P("extra", Num(2))>>),
     Obj(<<P("status", Str("failure")), P("error", WireError), P("extra", Num(2))>>),
     Obj(<<P("status", Str("ok")), P("value", Num(1))>>),
     Obj(<<P("status", Num(1)), P("value", Num(1))>>),
     Obj(<<P("value", Num(1))>>),
     Obj(<<P("status", Str("success")), P("error", WireError)>>),
     Obj(<<P("status", Str("success")), P("value", Num(1)), P("error", WireError)>>),
     Obj(<<P("status", Str("failure")), P("value", Num(1))>>),
     Obj(<<P("status", Str("failure")), P("error", WireError), P("value", Num(1))>>),
     Obj(<<P("status", Str("failure")), P("error", Str("Oh, no!"))>>),
     Obj(<<P("status", Str("failure")), P("error", Null)>>),
     Obj(<<P("status", Str("failure")), P("error", Obj(<<P("name", Str("MyError"))>>))>>),
     Obj(<<P("status", Str("failure")),
           P("error", Obj(<<P("name", Str("MyError")), P("message", Num(1))>>))>>),
     Obj(<<P("status", Str("failure")),
           P("error", Obj(<<P("name", Null), P("message", Str("m"))>>))>>),
     Obj(<<P("status", Str("failure")), P("error", Success_of(Num(1)))>>),
     Obj(<<P("status", Str("success")), P("value", Failure_of(NewMyError("m")))>>)}

\* entries of the lists handed to filter and all
ListEntries ==
    {Success_of(Num(1)), Success_of(Num(0)),
     Failure_of(NewError("Error", "Error")), Failure_of(NewMyError("m"))}

\* receivers of map, mapAsync and mapError
ReceiversIn ==
    {Success_of(Num(5)), Success_of(Str("a")),
     Failure_of(NewError("Error", "Error")), Failure_of(NewMyError("m"))}

ListsIn == UNION {[1..n -> ListEntries] : n \in 0..MaxList}

\* promises handed to fromPromise
PromisesIn ==
    {Fulfilled(Num(5)), Fulfilled(Undef), Fulfilled(Str("a")),
     Fulfilled(Success_of(Num(5))), Fulfilled(Failure_of(NewError("Error", "Error"))),
     Rejected(NewError("Error", "Error")), Rejected(NewMyError("m")),
     Rejected(Str("rejected"))}

\* arguments of the static toPromise: a result or a promise of one
ToPromiseIn ==
    ResultsIn \cup {Fulfilled(r) : r \in ReceiversIn} \cup {Rejected(FnFault)}

\* arguments of Result.success and Result.failure
SuccessArgs ==
    PlainValues \cup {Undef, Success_of(Num(5)), Failure_of(NewMyError("m")),
                      NewError("Error", "m")}

FailureArgs == ErrorsIn \cup {Str("m"), Str("Oh, no!"), Str("")}

PersonWire ==
    Obj(<<P("name", Str("John Smith")), P("birthday", Str("2000-01-01T00:00:00.000Z"))>>)

\* texts handed to fromJson: envelopes, bare values, malformed text
JsonTextsIn ==
    TextsIn \cup
    {Malformed, SuccessEnvelope, FailureEnvelope, PersonWire,
     Obj(<<P("status", Str("success")), P("value", PersonWire)>>),
     Obj(<<P("status", Str("success")), P("value", SuccessEnvelope)>>),
     Obj(<<P("status", Str("failure")), P("error", WireError), P("extra", PersonWire)>>),
     Obj(<<P("status", Str("ok")), P("value", Num(1))>>),
     Arr(<<Num(1), Num(2)>>)}

\* the optional second argument of fromJson
ModelsIn == Validators \cup {Undef}

(***************************************************************************)
(* The state machine: the registry, the registrations made so far, and     *)
(* the call in progress with its arguments and outcome.  The library is    *)
(* synchronous: a call runs to completion and returns to the caller        *)
(* (Return) before the next one is made.                                   *)
(***************************************************************************)
Idle == call.op = "none"

Init ==
    /\ registry = EmptyRegistry
    /\ regLog = <<>>
    /\ call = [op |-> "none"]

Unwrap ==
    /\ Idle
    /\ \E res \in ResultsIn, d \in DefaultsIn :
        /\ call' = [op |-> "unwrap", res |-> res, arg |-> d, out |-> unwrap(res, d)]
        /\ UNCHANGED <<registry, regLog>>

UnwrapError ==
    /\ Idle
    /\ \E res \in ResultsIn :
        /\ call' = [op |-> "unwrapError", res |-> res, out |-> unwrapError(res)]
        /\ UNCHANGED <<registry, regLog>>

RegisterErrorDecoder ==
    /\ Idle
    /\ \E name \in RegNames, decoder \in Decoders :
        /\ Len(regLog) < MaxRegs
        /\ registry' = registerErrorDecoder(registry, name, decoder)
        /\ regLog' = Append(regLog, <<name, decoder>>)
        /\ call' = [op |-> "registerErrorDecoder", name |-> name, decoder |-> decoder]

RegisterErrorType ==
    /\ Idle
    /\ \E err \in ErrorTypes :
        /\ Len(regLog) < MaxRegs
        /\ registry' = registerErrorType(registry, err)
        /\ regLog' = Append(regLog, <<err.name, err.fromResultFailure>>)
        /\ call' = [op |-> "registerErrorType", err |-> err]

RegisterErrorTypes ==
    /\ Idle
    /\ \E n \in 0..MaxTypes : \E errs \in [1..n -> ErrorTypes] :
        /\ Len(regLog) + n <= MaxRegs
        /\ registry' = registerErrorTypes(registry, errs)
        /\ regLog' = regLog \o [i \in 1..n |-> <<errs[i].name, errs[i].fromResultFailure>>]
        /\ call' = [op |-> "registerErrorTypes", errs |-> errs]

Encode ==
    /\ Idle
    /\ \E err \in ErrorsIn :
        /\ call' = [op |-> "errorEncoder", err |-> err, out |-> Ret(errorEncoder(err))]
        /\ UNCHANGED <<registry, regLog>>

Decode ==
    /\ Idle
    /\ \E name \in DecodeNames, message \in Messages, props \in ExtraPropsIn :
        /\ call' = [op |-> "errorDecoder", name |-> name, message |-> message,
                    props |-> props, src |-> Undef,
                    out |-> errorDecoder(registry, name, message, props)]
        /\ UNCHANGED <<registry, regLog>>

\* the encoded form of an error is handed back to the decoder, as the tests
\* and errorModel do: decode(x.name, x.message, omitKeys(x, ["name", "message"]))
DecodeEncoded ==
    /\ call.op = "errorEncoder"
    /\ LET x == call.out.val
           name == OwnProp(x.props, "name").v.s
           message == OwnProp(x.props, "message").v.s
           props == omitKeys(x, {"name", "message"})
       IN  call' = [op |-> "errorDecoder", name |-> name, message |-> message,
                    props |-> props, src |-> call.err,
                    out |-> errorDecoder(registry, name, message, props)]
    /\ UNCHANGED <<registry, regLog>>

ToJSON ==
    /\ Idle
    /\ \E res \in ResultsIn :
        /\ call' = [op |-> "toJSON", res |-> res, out |-> Ret(toJSON(res))]
        /\ UNCHANGED <<registry, regLog>>

\* JSON.stringify(value): the text is in flight until it is parsed
Stringify ==
    /\ Idle
    /\ \E value \in StringifyIn :
        /\ call' = [op |-> "stringify", value |-> value, out |-> Ret(stringify(value))]
        /\ UNCHANGED <<registry, regLog>>

\* JSON.parse(text, Result.JSONReviver) of the text just produced
Revive ==
    /\ call.op = "stringify"
    /\ call.out.val # Undef
    /\ call' = [op |-> "parse", text |-> call.out.val, src |-> call.value,
                out |-> JSONParse(registry, call.out.val)]
    /\ UNCHANGED <<registry, regLog>>

\* JSON.parse(text, Result.JSONReviver) of a text from elsewhere
ParseText ==
    /\ Idle
    /\ \E text \in TextsIn :
        /\ call' = [op |-> "parse", text |-> text, src |-> Undef,
                    out |-> JSONParse(registry, text)]
        /\ UNCHANGED <<registry, regLog>>

\* Result.JSONReviver(key, value) called on one node
Reviver ==
    /\ Idle
    /\ \E value \in NodesIn :
        /\ call' = [op |-> "JSONReviver", value |-> value,
                    out |-> JSONReviver(registry, value)]
        /\ UNCHANGED <<registry, regLog>>

Map ==
    /\ Idle
    /\ \E res \in ReceiversIn, f \in MapFns :
        /\ call' = [op |-> "map", res |-> res, f |-> f, out |-> map(res, f).out,
                    calls |-> map(res, f).calls, root |-> res, depth |-> 1]
        /\ UNCHANGED <<registry, regLog>>

\* res.map(f).map(g): map called on the result of the previous map
MapChained ==
    /\ call.op = "map"
    /\ call.out.kind = "return"
    /\ call.depth < MaxChain
    /\ \E f \in MapFns :
        /\ call' = [op |-> "map", res |-> call.out.val, f |-> f,
                    out |-> map(call.out.val, f).out,
                    calls |-> map(call.out.val, f).calls,
                    root |-> call.root, depth |-> call.depth + 1]
        /\ UNCHANGED <<registry, regLog>>

MapAsync ==
    /\ Idle
    /\ \E res \in ReceiversIn, f \in AsyncFns :
        /\ call' = [op |-> "mapAsync", res |-> res, f |-> f,
                    out |-> mapAsync(res, f).out,
                    awaiting |-> mapAsync(res, f).awaiting,
                    calls |-> mapAsync(res, f).calls]
        /\ UNCHANGED <<registry, regLog>>

\* the async function resumes after its await and settles its promise
MapAsyncResume ==
    /\ call.op = "mapAsync"
    /\ call.out = Pending
    /\ call' = [call EXCEPT !.out = Success_mapAsync_resume(call.awaiting)]
    /\ UNCHANGED <<registry, regLog>>

MapError ==
    /\ Idle
    /\ \E res \in ReceiversIn, f \in ErrorFns :
        /\ call' = [op |-> "mapError", res |-> res, f |-> f,
                    out |-> mapError(res, f).out, calls |-> mapError(res, f).calls]
        /\ UNCHANGED <<registry, regLog>>

Filter ==
    /\ Idle
    /\ \E a \in ListsIn :
        /\ call' = [op |-> "filter", list |-> a, out |-> Ret(filter(a))]
        /\ UNCHANGED <<registry, regLog>>

All ==
    /\ Idle
    /\ \E a \in ListsIn :
        /\ call' = [op |-> "all", list |-> a, out |-> all(a).out, seen |-> all(a).seen]
        /\ UNCHANGED <<registry, regLog>>

FromJson ==
    /\ Idle
    /\ \E str \in JsonTextsIn, model \in ModelsIn :
        /\ call' = [op |-> "fromJson", text |-> str, model |-> model,
                    out |-> fromJson(registry, str, model)]
        /\ UNCHANGED <<registry, regLog>>

Match ==
    /\ Idle
    /\ \E res \in ReceiversIn, m \in MatchersIn :
        /\ call' = [op |-> "match", res |-> res, m |-> m, out |-> match(res, m).out,
                    calls |-> match(res, m).calls]
        /\ UNCHANGED <<registry, regLog>>

FromTry ==
    /\ Idle
    /\ \E f \in Thunks :
        /\ call' = [op |-> "fromTry", f |-> f, out |-> fromTry(f).out,
                    calls |-> fromTry(f).calls]
        /\ UNCHANGED <<registry, regLog>>

\* Result.toPromise(res)
ToPromise ==
    /\ Idle
    /\ \E res \in ToPromiseIn :
        /\ call' = [op |-> "toPromise", via |-> "static", res |-> res, out |-> Pending]
        /\ UNCHANGED <<registry, regLog>>

\* res.toPromise()
ToPromiseMethod ==
    /\ Idle
    /\ \E res \in ResultsIn :
        /\ call' = [op |-> "toPromise", via |-> "method", res |-> res, out |-> Pending]
        /\ UNCHANGED <<registry, regLog>>

\* the then-callback of toPromise runs
ToPromiseSettle ==
    /\ call.op = "toPromise"
    /\ call.out = Pending
    /\ call' = [call EXCEPT !.out = toPromise_then(call.res)]
    /\ UNCHANGED <<registry, regLog>>

\* Result.fromPromise(p)
FromPromise ==
    /\ Idle
    /\ \E p \in PromisesIn :
        /\ call' = [op |-> "fromPromise", p |-> p, mid |-> Pending, out |-> Pending]
        /\ UNCHANGED <<registry, regLog>>

\* the reaction registered by then runs
FromPromiseThen ==
    /\ call.op = "fromPromise"
    /\ call.mid = Pending
    /\ call' = [call EXCEPT !.mid = fromPromise_then(call.p)]
    /\ UNCHANGED <<registry, regLog>>

\* the reaction registered by catch runs
FromPromiseCatch ==
    /\ call.op = "fromPromise"
    /\ call.mid # Pending
    /\ call.out = Pending
    /\ call' = [call EXCEPT !.out = fromPromise_catch(call.mid)]
    /\ UNCHANGED <<registry, regLog>>

\* a call whose promise has jobs left to run
AwaitingSettlement ==
    /\ call.op \in {"mapAsync", "toPromise", "fromPromise"}
    /\ call.out = Pending

\* Result.success(value)
MakeSuccess ==
    /\ Idle
    /\ \E value \in SuccessArgs :
        /\ call' = [op |-> "success", arg |-> value, out |-> Ret(Success_of(value))]
        /\ UNCHANGED <<registry, regLog>>

\* Result.failure(err)
MakeFailure ==
    /\ Idle
    /\ \E err \in FailureArgs :
        /\ call' = [op |-> "failure", arg |-> err, out |-> Ret(Failure_of(err))]
        /\ UNCHANGED <<registry, regLog>>

\* new C(arg) for C one of the library's classes or a subclass of one
Instantiate ==
    /\ Idle
    /\ \E newTarget \in NewTargets, arg \in {Num(5), NewMyError("m")} :
        /\ call' = [op |-> "new", newTarget |-> newTarget, arg |-> arg,
                    out |-> Construct(newTarget, arg)]
        /\ UNCHANGED <<registry, regLog>>

\* the operations whose outcome is a returned value or a thrown one
Returning ==
    call.op \in {"unwrap", "unwrapError", "errorDecoder", "parse", "JSONReviver",
                 "fromJson", "all", "map", "mapError", "match", "fromTry",
                 "success", "failure"}

\* the operations whose outcome is a promise
Promising == call.op \in {"mapAsync", "toPromise", "fromPromise"}

\* r.isSuccess(), r.isFailure(), Result.isSuccess(r), Result.isFailure(r) asked
\* of the result the previous operation has produced
Predicates ==
    /\ \/ Returning /\ call.out.kind = "return" /\ IsResult(call.out.val)
       \/ Promising /\ call.out.state = "fulfilled" /\ IsResult(call.out.val)
    /\ call' = [op |-> "predicates", res |-> call.out.val, from |-> call.op,
                isSuccess |-> isSuccess_method(call.out.val),
                isFailure |-> isFailure_method(call.out.val),
                staticIsSuccess |-> isSuccess(call.out.val),
                staticIsFailure |-> isFailure(call.out.val)]
    /\ UNCHANGED <<registry, regLog>>

\* Result.errorEncoder applied to the error of the Failure that parsing a
\* failure envelope has given
EncodeRevived ==
    /\ call.op = "parse"
    /\ call.out.kind = "return"
    /\ isFailure(call.out.val)
    /\ call' = [op |-> "reencode", src |-> call.src, wire |-> Field(call.text, "error"),
                revived |-> call.out.val,
                out |-> Ret(errorEncoder(call.out.val.error))]
    /\ UNCHANGED <<registry, regLog>>

Return ==
    /\ ~Idle
    /\ ~AwaitingSettlement
    /\ call' = [op |-> "none"]
    /\ UNCHANGED <<registry, regLog>>

Next ==
    \/ Unwrap
    \/ UnwrapError
    \/ RegisterErrorDecoder
    \/ RegisterErrorType
    \/ RegisterErrorTypes
    \/ Encode
    \/ Decode
    \/ DecodeEncoded
    \/ ToJSON
    \/ Stringify
    \/ Revive
    \/ ParseText
    \/ Reviver
    \/ FromJson
    \/ Map
    \/ MapChained
    \/ MapAsync
    \/ MapAsyncResume
    \/ MapError
    \/ Filter
    \/ All
    \/ Match
    \/ FromTry
    \/ ToPromise
    \/ ToPromiseMethod
    \/ ToPromiseSettle
    \/ FromPromise
    \/ FromPromiseThen
    \/ FromPromiseCatch
    \/ MakeSuccess
    \/ MakeFailure
    \/ Instantiate
    \/ Predicates
    \/ EncodeRevived
    \/ Return

Spec == Init /\ [][Next]_vars

(***************************************************************************)
(* The promise bridges on their own, with the jobs of a pending promise    *)
(* eventually run: the job queue is drained once the calling code returns. *)
(***************************************************************************)
AsyncNext ==
    \/ MapAsync
    \/ MapAsyncResume
    \/ ToPromise
    \/ ToPromiseMethod
    \/ ToPromiseSettle
    \/ FromPromise
    \/ FromPromiseThen
    \/ FromPromiseCatch
    \/ Return

AsyncSpec ==
    /\ Init
    /\ [][AsyncNext]_vars
    /\ WF_vars(MapAsyncResume)
    /\ WF_vars(ToPromiseSettle)
    /\ WF_vars(FromPromiseThen)
    /\ WF_vars(FromPromiseCatch)

(***************************************************************************)
(* Extraction                                                              *)
(***************************************************************************)
\* C1: unwrap(default) on a Failure returns every explicitly supplied
\* default, the falsy ones (0, "", false, null) included, without raising.
C1_ExplicitDefaultHonoured ==
    (call.op = "unwrap" /\ isFailure(call.res) /\ call.arg # Undef)
        => call.out = Ret(call.arg)

\* C2: unwrap() without a default on a Failure raises exactly the wrapped
\* error; unwrap on a Success returns the wrapped value whatever the default;
\* unwrapError() returns the wrapped error of a Failure and raises the
\* invalid-state error on a Success.
C2_Extraction ==
    /\ (call.op = "unwrap" /\ isFailure(call.res) /\ call.arg = Undef)
           => call.out = Throw(call.res.error)
    /\ (call.op = "unwrap" /\ isSuccess(call.res))
           => call.out = Ret(call.res.value)
    /\ (call.op = "unwrapError" /\ isFailure(call.res))
           => call.out = Ret(call.res.error)
    /\ (call.op = "unwrapError" /\ isSuccess(call.res))
           => call.out = Throw(InvalidState)

C2_Witness ==
    /\ call.op = "unwrapError"
    /\ isFailure(call.res)
    /\ call.res.error.class = "MyError"
    /\ call.out.kind = "return"

(***************************************************************************)
(* Error codec                                                             *)
(***************************************************************************)
\* the registration of `name` made last, by whichever registration call
IsLastRegistration(i, name) ==
    /\ i \in 1..Len(regLog)
    /\ regLog[i][1] = name
    /\ \A j \in (i + 1)..Len(regLog) : regLog[j][1] # name

DecodeUnregistered == call.op = "errorDecoder" /\ ~Registered(registry, call.name)

\* extraProps asks for a name other than the one a generic error was given
NameClash ==
    /\ call.name \notin BuiltinKinds
    /\ HasOwn(call.props.props, "name")
    /\ OwnProp(call.props.props, "name").v # Str(call.name)

RoundTripped == call.op = "errorDecoder" /\ call.src # Undef

\* C6 as stated: whatever the registry holds, decoding the encoded form of
\* an error gives an error with the same name and message.
C6_Original ==
    RoundTripped
        => /\ call.out.kind = "return"
           /\ ErrName(call.out.val) = ErrName(call.src)
           /\ ErrMessage(call.out.val) = ErrMessage(call.src)

\* C6 amended: when the registry has no entry for the error's name,
\* decoding the encoded form of the error gives an error with the same name
\* and message.
C6_Amended ==
    (RoundTripped /\ ~Registered(registry, ErrName(call.src).s))
        => /\ call.out.kind = "return"
           /\ ErrName(call.out.val) = ErrName(call.src)
           /\ ErrMessage(call.out.val) = ErrMessage(call.src)

C6_Witness ==
    /\ RoundTripped
    /\ call.src.class = "MyError"
    /\ HasOwn(call.src.props, "detail")
    /\ ~Registered(registry, "MyError")
    /\ Registered(registry, "RangeError")
    /\ call.out.kind = "return"
    /\ ErrName(call.out.val) = Str("MyError")

\* the own property names of the error other than stack, name and message
OtherOwnKeys(err) ==
    SelectSeq(OwnKeys(err.props), LAMBDA k : k \notin {"stack", "name", "message"})

EncodedContent ==
    LET err == call.err
        enc == call.out.val.props
    IN  /\ call.out.kind = "return"
        /\ call.out.val.t = "obj"
        /\ {enc[i].k : i \in 1..Len(enc)} =
               {"name", "message"} \cup ({err.props[i].k : i \in 1..Len(err.props)} \ {"stack"})
        /\ \A i \in 1..Len(enc) : enc[i] = P(enc[i].k, Get(err, enc[i].k))
        /\ \A i, j \in 1..Len(enc) : enc[i].k = enc[j].k => i = j
        /\ err = NewError("Error", "m")
               => call.out.val = Obj(<<P("name", Str("Error")), P("message", Str("m"))>>)

\* C7 as stated: the encoded mapping holds name, message and every other own
\* property but stack, and its keys are name, message, then the others in
\* their enumeration order.
C7_Original ==
    call.op = "errorEncoder"
        => /\ EncodedContent
           /\ OwnKeys(call.out.val.props) = <<"name", "message">> \o OtherOwnKeys(call.err)

\* C7 amended: the encoded mapping holds name, message and every other own
\* property but stack, and nothing else; among its keys that are not integer
\* indices name and message come first and the others follow in their
\* enumeration order, while integer-index keys, as in any object, come before
\* all of them in ascending order.
C7_Amended ==
    call.op = "errorEncoder"
        => /\ EncodedContent
           /\ LET keys == OwnKeys(call.out.val.props)
                  others == OtherOwnKeys(call.err)
              IN  keys = SelectSeq(others, IsIndexKey) \o <<"name", "message">>
                             \o SelectSeq(others, LAMBDA k : ~IsIndexKey(k))

C7_Witness ==
    /\ call.op = "errorEncoder"
    /\ call.err.class = "MyError"
    /\ OwnKeys(call.out.val.props) = <<"name", "message", "code", "detail">>

(***************************************************************************)
(* JSON bridge                                                             *)
(***************************************************************************)
RECURSIVE IsPlainJSON(_)
IsPlainJSON(v) ==
    CASE v.t \in {"null", "bool", "num", "str"} -> TRUE
      [] v.t = "arr" -> \A i \in 1..Len(v.items) : IsPlainJSON(v.items[i])
      [] v.t = "obj" -> \A i \in 1..Len(v.props) :
                            /\ v.props[i] = P(v.props[i].k, v.props[i].v)
                            /\ IsPlainJSON(v.props[i].v)
      [] OTHER -> FALSE

KeySet(v) == {v.props[i].k : i \in 1..Len(v.props)}

\* the two shapes of the wire envelope
SuccessShaped(v) ==
    /\ v.t = "obj"
    /\ KeySet(v) = {"status", "value"}
    /\ Field(v, "status") = Str("success")

FailureShaped(v) ==
    /\ v.t = "obj"
    /\ KeySet(v) = {"status", "error"}
    /\ Field(v, "status") = Str("failure")
    /\ Field(v, "error").t = "obj"
    /\ Field(Field(v, "error"), "name").t = "str"
    /\ Field(Field(v, "error"), "message").t = "str"

EnvelopeShaped(v) == SuccessShaped(v) \/ FailureShaped(v)

\* a success object without its value key, which the schema's z.unknown()
\* does not tell from one whose value is undefined
ValueMissing(v) ==
    /\ v.t = "obj"
    /\ KeySet(v) = {"status"}
    /\ Field(v, "status") = Str("success")

RECURSIVE ContainsEnvelope(_)
ContainsEnvelope(v) ==
    CASE v.t = "arr" -> \E i \in 1..Len(v.items) : ContainsEnvelope(v.items[i])
      [] v.t = "obj" -> \/ EnvelopeShaped(v)
                        \/ ValueMissing(v)
                        \/ \E i \in 1..Len(v.props) : ContainsEnvelope(v.props[i].v)
      [] OTHER -> FALSE

\* what a Result put in the place of a value serializes to, for a payload
\* that is plain JSON
Envelope(res) ==
    IF isSuccess(res)
    THEN Obj(<<P("status", Str("success")), P("value", res.value)>>)
    ELSE Obj(<<P("status", Str("failure")), P("error", errorEncoder(res.error))>>)

\* C8: the serialization hook of a Success gives exactly {status: "success",
\* value}, that of a Failure exactly {status: "failure", error:
\* encode(error)}, and a Result in a field of an ordinary object is
\* serialized in place as that envelope.
C8_Serialization ==
    /\ (call.op = "toJSON" /\ isSuccess(call.res))
           => /\ call.out = Ret(Obj(<<P("status", Str("success")),
                                      P("value", call.res.value)>>))
              /\ ~HasOwn(call.out.val.props, "error")
    /\ (call.op = "toJSON" /\ isFailure(call.res))
           => call.out = Ret(Obj(<<P("status", Str("failure")),
                                   P("error", errorEncoder(call.res.error))>>))
    /\ (call.op = "stringify" /\ call.value.t = "obj")
           => /\ call.out.val.t = "obj"
              /\ OwnKeys(call.out.val.props) = OwnKeys(call.value.props)
              /\ \A i \in 1..Len(call.value.props) :
                    LET v == call.value.props[i].v
                    IN  IF IsResult(v)
                        THEN call.out.val.props[i].v = Envelope(v)
                        ELSE call.out.val.props[i].v = v

C8_Witness ==
    /\ call.op = "stringify"
    /\ call.value.t = "obj"
    /\ HasOwn(call.value.props, "person")
    /\ isFailure(Field(call.value, "person"))
    /\ Field(call.value, "person").error.class = "MyError"
    /\ HasOwn(Field(call.value, "person").error.props, "detail")
    /\ Field(Field(call.out.val, "person"), "status") = Str("failure")

WireRoundTrip == call.op = "parse" /\ call.src # Undef

SameNameAndMessage ==
    /\ call.out.kind = "return"
    /\ isFailure(call.out.val)
    /\ ErrName(call.out.val.error) = ErrName(call.src.error)
    /\ ErrMessage(call.out.val.error) = ErrMessage(call.src.error)

RECURSIVE RevivedAs(_, _)
RevivedAs(text, v) ==
    IF SuccessShaped(text)
    THEN isSuccess(v) /\ RevivedAs(Field(text, "value"), v.value)
    ELSE IF FailureShaped(text)
    THEN /\ isFailure(v)
         /\ LET wire == Field(text, "error")
            IN  Registered(registry, Field(wire, "name").s)
                \/ /\ ErrName(v.error) = Field(wire, "name")
                   /\ ErrMessage(v.error) = Field(wire, "message")
                   /\ \A i \in 1..Len(wire.props) :
                         wire.props[i].k \in {"name", "message", "stack"}
                         \/ RevivedAs(wire.props[i].v, Get(v.error, wire.props[i].k))
    ELSE IF ValueMissing(text)
    THEN TRUE
    ELSE IF text.t = "obj"
    THEN /\ v.t = "obj"
         /\ OwnKeys(v.props) = OwnKeys(text.props)
         /\ \A i \in 1..Len(text.props) : RevivedAs(text.props[i].v, v.props[i].v)
    ELSE IF text.t = "arr"
    THEN /\ v.t = "arr"
         /\ Len(v.items) = Len(text.items)
         /\ \A i \in 1..Len(text.items) : RevivedAs(text.items[i], v.items[i])
    ELSE v = text

\* C10: when parsing completes, every envelope-shaped node at any depth has
\* been replaced by its reconstructed Result, and an ordinary object holding
\* an envelope in a field is a plain object whose field holds the Result.
C10_BottomUp ==
    (call.op = "parse" /\ call.out.kind = "return")
        => RevivedAs(call.text, call.out.val)

C10_Witness ==
    /\ call.op = "parse"
    /\ call.text = Obj(<<P("a", Obj(<<P("b", FailureEnvelope)>>))>>)
    /\ call.out.kind = "return"
    /\ call.out.val.t = "obj"
    /\ Field(call.out.val, "a").t = "obj"
    /\ isFailure(Field(Field(call.out.val, "a"), "b"))

(***************************************************************************)
(* Revival of single nodes                                                 *)
(***************************************************************************)
RevivedNode == call.op = "JSONReviver"

\* a failure-status object whose error has a string name and a string
\* message, whatever other keys the object has
WellFormedError ==
    /\ call.value.t = "obj"
    /\ Field(call.value, "status") = Str("failure")
    /\ Field(call.value, "error").t = "obj"
    /\ Field(Field(call.value, "error"), "name").t = "str"
    /\ Field(Field(call.value, "error"), "message").t = "str"

\* the reconstructor registered for the name of the node's error faults
ReconstructorFaults ==
    LET wire == Field(call.value, "error")
    IN  /\ WellFormedError
        /\ Registered(registry, Field(wire, "name").s)
        /\ ApplyDecoder(registry.own[Field(wire, "name").s], Field(wire, "message").s,
                        omitKeys(wire, {"name", "message"})).kind = "throw"

StatusOnly(status) == Obj(<<P("status", Str(status))>>)

Revived == JSONParse(registry, call.text)

\* C14: for well-formed text whose revival completes, a top-level Failure
\* is returned as it is whatever the validator; otherwise v is the inner
\* value of a top-level Success or the parsed value itself, and the result
\* is Success(v) without a validator, Success of the validator's output when
\* it accepts v, and Failure of the validator's error when it rejects v.
C14_Decision ==
    (call.op = "fromJson" /\ call.text # Malformed /\ Revived.kind = "return")
        => LET top == Revived.val
               v == IF isSuccess(top) THEN top.value ELSE top
           IN  IF isFailure(top) THEN call.out = Ret(top)
               ELSE IF call.model = Undef THEN call.out = Ret(Success_of(v))
               ELSE IF safeParse(call.model, v).success
               THEN call.out = Ret(Success_of(safeParse(call.model, v).data))
               ELSE call.out = Ret(NewFailure(safeParse(call.model, v).error))

C14_Witness ==
    /\ call.op = "fromJson"
    /\ call.text = Obj(<<P("status", Str("success")), P("value", PersonWire)>>)
    /\ call.model = [t |-> "zod", schema |-> "Person"]
    /\ call.out.kind = "return"
    /\ isSuccess(call.out.val)
    /\ Field(call.out.val.value, "birthday") = Date("2000-01-01T00:00:00.000Z")

\* well-formed text whose top-level value is not of envelope shape
NotAnEnvelope ==
    /\ call.op = "fromJson"
    /\ call.text # Malformed
    /\ ~EnvelopeShaped(call.text)
    /\ ~ValueMissing(call.text)

\* C15 as stated: fromJson of well-formed text whose top-level parsed value
\* does not match the envelope shape returns a Failure.
C15_Original ==
    NotAnEnvelope => (call.out.kind = "return" /\ isFailure(call.out.val))

\* C15 amended: a top-level value that does not match the envelope shape is
\* taken as the payload itself: without a validator the result is a Success
\* wrapping the revived value, with a validator a Success of its output or a
\* Failure wrapping its error object; the only other Failure is the one
\* wrapping a fault raised during revival.
C15_Amended ==
    NotAnEnvelope
        => IF Revived.kind = "throw"
           THEN call.out = Ret(NewFailure(Revived.err))
           ELSE /\ ~IsResult(Revived.val)
                /\ call.model = Undef => call.out = Ret(Success_of(Revived.val))
                /\ call.model # Undef
                       => \/ /\ safeParse(call.model, Revived.val).success
                             /\ isSuccess(call.out.val)
                          \/ /\ ~safeParse(call.model, Revived.val).success
                             /\ call.out =
                                    Ret(NewFailure(safeParse(call.model, Revived.val).error))

C15_Witness ==
    /\ NotAnEnvelope
    /\ call.text = PersonWire
    /\ call.model = [t |-> "zod", schema |-> "number"]
    /\ call.out.kind = "return"
    /\ isFailure(call.out.val)
    /\ call.out.val.error.class = "ZodError"

(***************************************************************************)
(* Lists of results                                                        *)
(***************************************************************************)
FailuresAt(a) == {i \in 1..Len(a) : isFailure(a[i])}

SuccessesAt(a) == {i \in 1..Len(a) : isSuccess(a[i])}

FirstFailure(a) == CHOOSE i \in FailuresAt(a) : \A j \in FailuresAt(a) : i <= j

\* C16: all(list) returns the first Failure of the list, in list order,
\* having taken no entry after it from the list; when every entry is a
\* Success, the empty list included, it returns a Success wrapping the
\* values in input order.
C16_All ==
    call.op = "all"
        => IF FailuresAt(call.list) # {}
           THEN /\ call.out = Ret(call.list[FirstFailure(call.list)])
                /\ call.seen = FirstFailure(call.list)
           ELSE /\ call.out.kind = "return"
                /\ isSuccess(call.out.val)
                /\ call.out.val.value.t = "arr"
                /\ Len(call.out.val.value.items) = Len(call.list)
                /\ \A i \in 1..Len(call.list) :
                      call.out.val.value.items[i] = call.list[i].value

C16_Witness ==
    /\ call.op = "all"
    /\ Len(call.list) = 3
    /\ isSuccess(call.list[1])
    /\ isFailure(call.list[2])
    /\ isFailure(call.list[3])
    /\ call.list[2] # call.list[3]
    /\ call.out = Ret(call.list[2])

\* C17: filter(list) returns exactly the wrapped values of the Success
\* entries, in input order, drops every Failure without raising, and its
\* length is the number of Success entries.
C17_Filter ==
    call.op = "filter"
        => /\ call.out.kind = "return"
           /\ call.out.val.t = "arr"
           /\ Len(call.out.val.items) = Cardinality(SuccessesAt(call.list))
           /\ \A i \in SuccessesAt(call.list) :
                 call.out.val.items[Cardinality({j \in SuccessesAt(call.list) : j <= i})]
                     = call.list[i].value

C17_Witness ==
    /\ call.op = "filter"
    /\ Len(call.list) = 3
    /\ isSuccess(call.list[1])
    /\ isFailure(call.list[2])
    /\ isSuccess(call.list[3])
    /\ call.list[1] # call.list[3]
    /\ Len(call.out.val.items) = 2

(***************************************************************************)
(* Transformation                                                          *)
(***************************************************************************)
\* C18: map(f) on a Success calls f once with the value and returns f's
\* output itself when it is a Result, Success of the output otherwise, and a
\* fault f raises reaches the caller; map(f) on a Failure does not call f
\* and returns a Failure of the same error, so every result of a chain of
\* map calls begun on a Failure wraps the original error.
C18_Map ==
    call.op = "map"
        => /\ isSuccess(call.res)
                  => /\ call.calls = <<call.res.value>>
                     /\ LET r == Apply(call.f, call.res.value)
                        IN  IF r.kind = "throw" THEN call.out = Throw(r.err)
                            ELSE IF IsResult(r.val) THEN call.out = Ret(r.val)
                            ELSE call.out = Ret(Success_of(r.val))
           /\ isFailure(call.res)
                  => /\ call.calls = <<>>
                     /\ call.out = Ret(call.res)
           /\ isFailure(call.root)
                  => /\ call.out.kind = "return"
                     /\ isFailure(call.out.val)
                     /\ call.out.val.error = call.root.error

C18_Witness ==
    /\ call.op = "map"
    /\ call.depth = 3
    /\ isSuccess(call.root)
    /\ isFailure(call.res)
    /\ call.f = "toSuccess"
    /\ call.out = Ret(call.res)

\* C19: the promise mapAsync(f) returns is never rejected: on a Success it
\* is fulfilled with Failure(e) when f throws e or its promise rejects with
\* e, and otherwise with f's awaited output itself when it is a Result and
\* Success of it otherwise; on a Failure it is fulfilled with a Failure of
\* the same error and f is not called.
C19_MapAsync ==
    call.op = "mapAsync"
        => /\ call.out.state # "rejected"
           /\ isFailure(call.res)
                  => /\ call.calls = <<>>
                     /\ call.out = Fulfilled(NewFailure(call.res.error))
           /\ (isSuccess(call.res) /\ call.out.state = "fulfilled")
                  => LET r == ApplyAsync(call.f, call.res.value)
                     IN  IF r.kind = "throw"
                         THEN call.out.val = Failure_of(r.err)
                         ELSE IF r.val.t = "promise" /\ r.val.state = "rejected"
                         THEN call.out.val = Failure_of(r.val.val)
                         ELSE LET v == IF r.val.t = "promise" THEN r.val.val ELSE r.val
                              IN  call.out.val = IF IsResult(v) THEN v ELSE Success_of(v)

C19_Witness ==
    /\ call.op = "mapAsync"
    /\ isSuccess(call.res)
    /\ call.f = "asyncReject"
    /\ call.out.state = "fulfilled"
    /\ isFailure(call.out.val)
    /\ call.out.val.error = FnFault

\* C20: mapError(f) on a Failure calls f with the wrapped error and returns
\* a Failure wrapping f's output; on a Success it does not call f and
\* returns a Success of the same value.
C20_MapError ==
    call.op = "mapError"
        => /\ isFailure(call.res)
                  => /\ call.calls = <<call.res.error>>
                     /\ LET r == ApplyToError(call.f, call.res.error)
                        IN  r.kind = "return" => call.out = Ret(NewFailure(r.val))
           /\ isSuccess(call.res)
                  => /\ call.calls = <<>>
                     /\ call.out = Ret(Success_of(call.res.value))

C20_Witness ==
    /\ call.op = "mapError"
    /\ isFailure(call.res)
    /\ call.res.error.class = "Error"
    /\ call.f = "toMyError"
    /\ call.out.kind = "return"
    /\ isFailure(call.out.val)
    /\ call.out.val.error.class = "MyError"

(***************************************************************************)
(* Matching and bridging from throwing code                                *)
(***************************************************************************)
\* C21: match({success, failure}) invokes exactly one branch exactly once,
\* the success branch with the value of a Success, the failure branch with
\* the error of a Failure, never the other branch, and its outcome is the
\* outcome of the invoked branch.
C21_Match ==
    call.op = "match"
        => /\ Len(call.calls) = 1
           /\ isSuccess(call.res)
                  => /\ call.calls[1] = <<"success", call.res.value>>
                     /\ call.out = Apply(call.m.success, call.res.value)
           /\ isFailure(call.res)
                  => /\ call.calls[1] = <<"failure", call.res.error>>
                     /\ call.out = ApplyFailureBranch(call.m.failure, call.res.error)

C21_Witness ==
    /\ call.op = "match"
    /\ isFailure(call.res)
    /\ call.m = [success |-> "throws", failure |-> "one"]
    /\ call.out = Ret(Num(1))

\* C22: fromTry(f) executes f once and never raises: it returns Success of
\* what f returns, and failure(e) for the e that f throws.
C22_FromTry ==
    call.op = "fromTry"
        => /\ call.calls = 1
           /\ call.out.kind = "return"
           /\ Call(call.f).kind = "return"
                  => call.out.val = Success_of(Call(call.f).val)
           /\ Call(call.f).kind = "throw"
                  => /\ isFailure(call.out.val)
                     /\ call.out.val = Failure_of(Call(call.f).err)
                     /\ Call(call.f).err.t = "error"
                            => call.out.val.error = Call(call.f).err

C22_Witness ==
    /\ call.op = "fromTry"
    /\ call.f = "throwsMyError"
    /\ call.out.kind = "return"
    /\ isFailure(call.out.val)
    /\ call.out.val.error = NewMyError("m")

(***************************************************************************)
(* Bridging to promises                                                    *)
(***************************************************************************)
\* what the promise of toPromise is settled with, for a result
ToPromiseDone ==
    (call.op = "toPromise" /\ call.out # Pending /\ IsResult(call.res))
        => IF isSuccess(call.res) THEN call.out = Fulfilled(call.res.value)
           ELSE call.out = Rejected(call.res.error)

\* what the promise of fromPromise is settled with
FromPromiseDone ==
    call.op = "fromPromise"
        => /\ call.out.state # "rejected"
           /\ call.out # Pending
                  => IF call.p.state = "fulfilled"
                     THEN call.out = Fulfilled(Success_of(call.p.val))
                     ELSE call.out = Fulfilled(Failure_of(call.p.val))

\* C23: toPromise(r) fulfils with the value of a Success and rejects with
\* the error of a Failure; the promise of fromPromise(p) is never rejected
\* and is eventually fulfilled with Success(v) when p is fulfilled with v and
\* with failure(e) when p is rejected with e.
C23_Bridging ==
    /\ [](ToPromiseDone /\ FromPromiseDone)
    /\ (call.op = "toPromise" /\ call.out = Pending)
           ~> (call.op = "toPromise" /\ call.out # Pending)
    /\ (call.op = "fromPromise" /\ call.out = Pending)
           ~> (call.op = "fromPromise" /\ call.out.state = "fulfilled")

C23_Witness ==
    /\ call.op = "fromPromise"
    /\ call.p = Rejected(NewMyError("m"))
    /\ call.mid = Rejected(NewMyError("m"))
    /\ call.out = Fulfilled(Failure_of(NewMyError("m")))

(***************************************************************************)
(* Variants and construction                                               *)
(***************************************************************************)
\* C24: of every Result an operation of the library has produced exactly
\* one of isSuccess and isFailure is true, the instance and the static
\* predicates agree, and its status is "success" exactly when isSuccess and
\* "failure" exactly when isFailure; success(v) is a Success and failure(e)
\* a Failure.
C24_Variants ==
    /\ call.op = "predicates"
           => /\ call.isSuccess # call.isFailure
              /\ call.isSuccess = call.staticIsSuccess
              /\ call.isFailure = call.staticIsFailure
              /\ call.res.status \in {"success", "failure"}
              /\ call.isSuccess <=> call.res.status = "success"
              /\ call.isFailure <=> call.res.status = "failure"
    /\ call.op = "success" => isSuccess_method(call.out.val)
    /\ call.op = "failure" => isFailure_method(call.out.val)

C24_Witness ==
    /\ call.op = "predicates"
    /\ call.from = "fromJson"
    /\ call.isFailure
    /\ ~call.isSuccess
    /\ call.res.error.class = "ZodError"

\* C26: success(value) always succeeds and wraps the value given;
\* failure(e) of an error wraps that error unchanged; failure(s) of a string,
\* the empty one included, wraps a new native error with message s and the
\* default name "Error".
C26_Construction ==
    /\ call.op = "success"
           => /\ call.out.kind = "return"
              /\ isSuccess(call.out.val)
              /\ call.out.val.value = call.arg
    /\ (call.op = "failure" /\ call.arg.t = "error")
           => /\ call.out.kind = "return"
              /\ isFailure(call.out.val)
              /\ call.out.val.error = call.arg
    /\ (call.op = "failure" /\ call.arg.t = "str")
           => /\ call.out.kind = "return"
              /\ isFailure(call.out.val)
              /\ call.out.val.error.t = "error"
              /\ call.out.val.error.class = "Error"
              /\ ~HasOwn(call.out.val.error.props, "name")
              /\ ErrName(call.out.val.error) = Str("Error")
              /\ ErrMessage(call.out.val.error) = call.arg

C26_Witness ==
    /\ call.op = "failure"
    /\ call.arg = Str("")
    /\ call.out.kind = "return"
    /\ call.out.val.error = NewError("Error", "")

\* C27 as stated: every attempt to construct a Result that is neither a
\* Success nor a Failure fails at construction time.
C27_Original ==
    (call.op = "new" /\ call.newTarget \notin {"Success", "Failure"})
        => call.out.kind = "throw"

\* C27 amended: instantiating a subclass of Result, of Success or of Failure
\* fails at construction time with the subclassing error, and an object
\* constructed as Success or Failure has the status of its variant; the
\* constructor of Result lets an instantiation of Result itself pass, which
\* gives an object that is neither variant and has no status.
C27_Amended ==
    call.op = "new"
        => /\ call.newTarget \in {"SubResult", "SubSuccess", "SubFailure"}
                  => call.out = Throw(SubclassingError)
           /\ call.newTarget = "Success"
                  => call.out = Ret(Success_of(call.arg))
           /\ call.newTarget = "Failure"
                  => call.out = Ret(NewFailure(call.arg))
           /\ call.newTarget = "Result"
                  => /\ call.out.kind = "return"
                     /\ ~isSuccess(call.out.val)
                     /\ ~isFailure(call.out.val)
                     /\ "status" \notin DOMAIN call.out.val

C27_Witness ==
    /\ call.op = "new"
    /\ call.newTarget = "SubSuccess"
    /\ call.out = Throw(SubclassingError)

(***************************************************************************)
(* Registration                                                            *)
(***************************************************************************)
\* registerErrorDecoder(d1.name, d1.fromResultFailure), ..., one after the other
RECURSIVE OneAfterTheOther(_, _)
OneAfterTheOther(reg, errs) ==
    IF errs = <<>> THEN reg
    ELSE OneAfterTheOther(
             registerErrorDecoder(reg, Head(errs).name, Head(errs).fromResultFailure),
             Tail(errs))

\* C25: registerErrorType(descriptor) changes the registry as
\* registerErrorDecoder(descriptor.name, descriptor's reconstructor) does, and
\* registerErrorTypes(d1, ..., dn) as registering d1 ... dn one after the
\* other in argument order does, so that of two descriptors with the same
\* name the later one is the entry afterwards.
C25_Registration ==
    [][/\ call'.op = "registerErrorType"
              => registry' = registerErrorDecoder(registry, call'.err.name,
                                                  call'.err.fromResultFailure)
       /\ call'.op = "registerErrorTypes"
              => /\ registry' = OneAfterTheOther(registry, call'.errs)
                 /\ \A j \in DOMAIN call'.errs :
                        (/\ call'.errs[j].name # "__proto__"
                         /\ \A k \in DOMAIN call'.errs :
                                k > j => call'.errs[k].name # call'.errs[j].name)
                            => registry'.own[call'.errs[j].name]
                                   = call'.errs[j].fromResultFailure]_vars

C25_Witness ==
    /\ call.op = "registerErrorTypes"
    /\ Len(call.errs) = 2
    /\ call.errs[1].name = "MyError"
    /\ call.errs[2].name = "MyError"
    /\ call.errs[1].fromResultFailure = "mkThrow"
    /\ call.errs[2].fromResultFailure = "mkMyError"
    /\ registry.own["MyError"] = "mkMyError"

RegisterOps == {"registerErrorDecoder", "registerErrorType", "registerErrorTypes"}

\* the names a registration call is for
NamesOf(c) ==
    CASE c.op = "registerErrorDecoder" -> {c.name}
      [] c.op = "registerErrorType" -> {c.err.name}
      [] c.op = "registerErrorTypes" -> {c.errs[i].name : i \in DOMAIN c.errs}
      [] OTHER -> {}

\* C28: the registry is empty at start; no step removes a name; only the
\* three registration operations change the registry; a registration changes
\* the entries of the names it is for and of no other name; decoding, the
\* revival callback, fromJson and serialization leave the registry unchanged.
C28_RegistryFrame ==
    /\ registry = EmptyRegistry
    /\ [][/\ DOMAIN registry.own \subseteq DOMAIN registry'.own
          /\ registry' # registry => call'.op \in RegisterOps
          /\ DOMAIN registry'.own \subseteq DOMAIN registry.own \cup NamesOf(call')
          /\ \A n \in DOMAIN registry.own \ NamesOf(call') :
                 registry'.own[n] = registry.own[n]
          /\ "__proto__" \notin NamesOf(call') => registry'.proto = registry.proto
          /\ call'.op \in {"errorDecoder", "errorEncoder", "JSONReviver", "parse",
                           "fromJson", "toJSON", "stringify"}
                 => registry' = registry]_vars

C28_Witness ==
    /\ call.op = "registerErrorDecoder"
    /\ Len(regLog) = 2
    /\ regLog[1] = <<"MyError", "mkAssign">>
    /\ call.name = "RangeError"
    /\ DOMAIN registry.own = {"MyError", "RangeError"}
    /\ registry.own["MyError"] = "mkAssign"

(***************************************************************************)
(* Nested envelopes and extra properties                                   *)
(***************************************************************************)
NestedIn(inner) == Obj(<<P("status", Str("success")), P("value", inner)>>)

\* the reconstructor registered for the error of FailureEnvelope faults
InnerFaults == Registered(registry, "MyError") /\ registry.own["MyError"] = "mkThrow"

\* C29: fromJson without a validator, given a Success envelope whose value
\* is itself an envelope that revives to a Result, returns a Success whose
\* value is that Result: an inner Failure stays wrapped and does not become
\* the overall result, an inner Success is not unwrapped.
C29_OneLevel ==
    (call.op = "fromJson" /\ call.model = Undef)
        => /\ (call.text = NestedIn(FailureEnvelope) /\ ~InnerFaults)
                  => /\ call.out.kind = "return"
                     /\ isSuccess(call.out.val)
                     /\ isFailure(call.out.val.value)
                     /\ ErrName(call.out.val.value.error) = Str("MyError")
                     /\ ErrMessage(call.out.val.value.error) = Str("Oh, no!")
           /\ call.text = NestedIn(SuccessEnvelope)
                  => call.out = Ret(Success_of(Success_of(Num(1))))

C29_Witness ==
    /\ call.op = "fromJson"
    /\ call.model = Undef
    /\ call.text = NestedIn(FailureEnvelope)
    /\ Registered(registry, "MyError")
    /\ call.out.kind = "return"
    /\ isSuccess(call.out.val)
    /\ isFailure(call.out.val.value)
    /\ call.out.val.value.error.class = "MyError"

\* the own properties of an error other than name, message and stack
ExtraKeys(err) ==
    {err.props[i].k : i \in 1..Len(err.props)} \ {"name", "message", "stack"}

\* a Failure was serialized and revived, its error re-encoded, and the
\* registry has no entry for the name on the wire
ReEncoded ==
    /\ call.op = "reencode"
    /\ ~Registered(registry, Field(call.wire, "name").s)
    /\ ~HasOwn(call.wire.props, "stack")

ExtrasSurvive ==
    \A k \in ExtraKeys(call.src.error) :
        /\ HasOwn(call.revived.error.props, k)
        /\ Get(call.revived.error, k) = Get(call.src.error, k)

\* C30 as stated: with no registry entry for the error's name, every extra
\* own property of a serialized and revived Failure's error is on the revived
\* error with an equal value, and encoding the revived error gives the
\* mapping that was on the wire.
C30_Original ==
    ReEncoded
        => /\ call.src # Undef => ExtrasSurvive
           /\ call.out = Ret(call.wire)

\* C30 amended: the same, for errors none of whose extra property values
\* contains an object of envelope shape (revival replaces such an object by
\* a Result, on the revived error and in its encoding alike).
C30_Amended ==
    (ReEncoded /\ \A k \in KeySet(call.wire) : ~ContainsEnvelope(Field(call.wire, k)))
        => /\ call.src # Undef => ExtrasSurvive
           /\ call.out = Ret(call.wire)

C30_Witness ==
    /\ ReEncoded
    /\ call.src # Undef
    /\ call.src.error.class = "MyError"
    /\ ExtraKeys(call.src.error) = {"code", "detail"}
    /\ Get(call.revived.error, "detail") = Str("a")
    /\ call.out = Ret(call.wire)
    /\ OwnKeys(call.wire.props) = <<"name", "message", "code", "detail">>

====
